---- MODULE Spec2Model ----
(***************************************************************************)
(* Model of the transcription server                                       *)
(*   src/local-ai-services/transcription-server.py  (the enhanced server)  *)
(* whose two POST handlers, /transcribe and /transcribe/stream, have the   *)
(* same control flow as those of                                           *)
(*   src/local-ai-services/railway-transcription/transcription-server.py.  *)
(*                                                                         *)
(* Every request r has its own control position pc[r], its handler locals  *)
(* loc[r], its temp file (r \in files), its HTTP response http[r] and, for *)
(* the streaming endpoint, the SSE events its generator has yielded.       *)
(* What the outside world does (the request body, the remote audio host,   *)
(* the speech model) is fixed per request in input[r] by Init.             *)
(*                                                                         *)
(* Numbers: avg_logprob is counted in 1/10000, a confidence before         *)
(* rounding in 1/100 of a percent, a confidence after round(x, 1) in 1/10  *)
(* of a percent.  An optional value is <<>> (None, attribute absent) or    *)
(* <<v>>.  A text is a sequence of one-character strings.                  *)
(***************************************************************************)
EXTENDS Integers, Sequences, FiniteSets, TLC

\* ------------------------------------------------------------- bounds
MaxSegs == 2
NumReq == 2
ServerMaxSegs == 1

Reqs == 1..NumReq

\* ------------------------------------------------------ optional values
None == <<>>
Some(v) == <<v>>

\* Python truthiness of an optional number: None and 0 are falsy.
Truthy(o) == o # None /\ o[1] # 0

\* ------------------------------------------------------------ requests
Endpoints == {"transcribe", "stream"}

\* What request.json / data.get('audioUrl') meet:
\*   unsupported_media  no JSON content type: request.json raises
\*   malformed_json     JSON content type, unparsable body: request.json raises
\*   json_null, json_array   valid JSON that is no object: data.get raises
\*   no_key, null_url, empty_url   an object without a usable audioUrl
\*   url                an object with a non-empty audioUrl
BodyKinds ==
  {"unsupported_media", "malformed_json", "json_null", "json_array",
   "no_key", "null_url", "empty_url", "url"}

\* What requests.get / raise_for_status / iter_content meet.
FetchKinds == {"ok", "connect_fail", "timeout", "http_error", "body_fail"}

\* Text of an exception raised by the audio host or by the provider.
Messages == {"m1", "m2"}

\* Where the provider raises: not at all, inside model.transcribe, or while
\* its segment generator is consumed (after yielding all of input.segs).
FailKinds == {"none", "call", "iter"}

\* segment.text as the provider gives it (untrimmed).
Texts == {<<" ", "a">>, <<"b", " ">>}

\* segment.avg_logprob in 1/10000: below -1, exactly -1, mid range, just
\* under and exactly at the 70% line, above 0; None: attribute absent.
LogProbs == {None, Some(-12000), Some(-10000), Some(-5000), Some(-3004),
             Some(-3000), Some(500)}

SegVals == [text : Texts, avg_logprob : LogProbs]

\* The provider yields its segments in chronological order: the k-th one
\* spans [k-1, k].
Timed(f) ==
  [k \in DOMAIN f |->
     [text |-> f[k].text, avg_logprob |-> f[k].avg_logprob,
      start |-> k - 1, end |-> k]]

SegSeqs(n, vals) == {Timed(f) : f \in UNION {[1..k -> vals] : k \in 0..n}}

\* The Content-Type header of the audio host's response ('' when absent) and
\* the audioUrl, as sequences of characters.
CT_Mpeg == <<"a", "u", "d", "i", "o", "/", "m", "p", "e", "g">>
CT_MpegParam == <<"a", "u", "d", "i", "o", "/", "m", "p", "e", "g", ";", "q", "=", "1">>
CT_Wav == <<"a", "u", "d", "i", "o", "/", "w", "a", "v">>
CT_XWav == <<"a", "u", "d", "i", "o", "/", "x", "-", "w", "a", "v">>
CT_Mp4 == <<"a", "u", "d", "i", "o", "/", "m", "p", "4">>
CT_Ogg == <<"a", "u", "d", "i", "o", "/", "o", "g", "g">>
CT_Absent == <<>>
ContentTypes ==
  {CT_Mpeg, CT_MpegParam, CT_Wav, CT_XWav, CT_Mp4, CT_Ogg, CT_Absent}

URL_Mp3 == <<"h", "/", "a", ".", "m", "p", "3">>
URL_Mp3Query == <<"h", "/", "a", ".", "m", "p", "3", "?", "t">>
URL_Wav == <<"h", "/", "a", ".", "w", "a", "v">>
URL_M4a == <<"h", "/", "a", ".", "m", "4", "a">>
URL_Ogg == <<"h", "/", "a", ".", "o", "g", "g">>
URL_Plain == <<"h", "/", "a">>
Urls == {URL_Mp3, URL_Mp3Query, URL_Wav, URL_M4a, URL_Ogg, URL_Plain}

Heads == [content_type : ContentTypes, url : Urls]
DefaultHead == [content_type |-> CT_Mpeg, url |-> URL_Mp3]

NoRequest ==
  [endpoint |-> "none", body |-> "none", fetch |-> "none", msg |-> "none",
   fail |-> "none", segs |-> <<>>, content_type |-> <<>>, url |-> <<>>]

\* The requests a client can send, with what the world answers to each.
\* Fields a request never reads are fixed, so that no two inputs behave alike.
InputsOver(n, vals) ==
  {[endpoint |-> e, body |-> b, fetch |-> "none", msg |-> "none",
    fail |-> "none", segs |-> <<>>] :
      e \in Endpoints, b \in BodyKinds \ {"url"}}
  \cup
  {[endpoint |-> e, body |-> "url", fetch |-> f, msg |-> m,
    fail |-> "none", segs |-> <<>>] :
      e \in Endpoints, f \in FetchKinds \ {"ok"}, m \in Messages}
  \cup
  {[endpoint |-> e, body |-> "url", fetch |-> "ok", msg |-> "none",
    fail |-> "none", segs |-> s] :
      e \in Endpoints, s \in SegSeqs(n, vals)}
  \cup
  {[endpoint |-> e, body |-> "url", fetch |-> "ok", msg |-> m,
    fail |-> "call", segs |-> <<>>] :
      e \in Endpoints, m \in Messages}
  \cup
  {[endpoint |-> e, body |-> "url", fetch |-> "ok", msg |-> m,
    fail |-> "iter", segs |-> s] :
      e \in Endpoints, m \in Messages, s \in SegSeqs(n, vals)}

\* Request i with the audioUrl and the Content-Type of head h.
WithHead(i, h) ==
  [endpoint |-> i.endpoint, body |-> i.body, fetch |-> i.fetch, msg |-> i.msg,
   fail |-> i.fail, segs |-> i.segs, content_type |-> h.content_type,
   url |-> h.url]

\* Request i gets response headers from the audio host.
GetsHeaders(i) == i.body = "url" /\ i.fetch \in {"ok", "body_fail"}

\* The requests of InputsOver(n, vals) with every head of heads; a request
\* that never gets response headers has the default head.
Requests(n, vals, heads) ==
  {WithHead(i, h) : i \in {j \in InputsOver(n, vals) : GetsHeaders(j)}, h \in heads}
  \cup
  {WithHead(i, DefaultHead) : i \in {j \in InputsOver(n, vals) : ~GetsHeaders(j)}}

Inputs == Requests(MaxSegs, SegVals, {DefaultHead})

\* The same requests with one text and two log-probabilities, for the
\* specifications whose claims do not read the segments' contents.
FewSegVals == [text : {<<"b", " ">>}, avg_logprob : {None, Some(-5000)}]
FairInputs == Requests(MaxSegs, FewSegVals, {DefaultHead})
ServerInputs ==
  {i \in Requests(ServerMaxSegs, FewSegVals, {DefaultHead}) :
     i.msg \in {"none", "m1"}}

\* The same requests with more texts: white space before, after, inside,
\* and nothing but white space.
ManyTexts == {<<" ", "a">>, <<"b", " ">>, <<"c", " ", "d">>, <<" ">>}
TextSegVals == [text : ManyTexts, avg_logprob : {None, Some(-5000)}]
TextInputs == Requests(MaxSegs, TextSegVals, {DefaultHead})

\* The same requests with every Content-Type and audioUrl.
SuffixInputs == Requests(MaxSegs, FewSegVals, Heads)

\* --------------------------------------------------------------- state
VARIABLES
  input,   \* input[r]: the request and what the world answers (fixed)
  pc,      \* pc[r]: where request r's handler / generator stands
  files,   \* the requests whose temp file exists in the temp directory
  unlinks, \* unlinks[r]: how often os.unlink(tmp_path) ran for r
  calls,   \* calls[r]: how often model.transcribe was called for r
  conn,    \* conn[r]: the client's connection, "open" or "closed"
  http,    \* http[r]: the response the handler returns
  events,  \* events[r]: the SSE events generate() has yielded
  loc      \* loc[r]: the handler's locals

vars == <<input, pc, files, unlinks, calls, conn, http, events, loc>>

NoResponse == [status |-> 0]

NoLocals ==
  [suffix |-> None, pos |-> 0, text_parts |-> <<>>, segments_data |-> <<>>,
   total_confidence |-> 0, segment_count |-> 0,
   low_confidence_segments |-> <<>>]

InitState ==
  /\ pc = [r \in Reqs |-> IF input[r] = NoRequest THEN "none" ELSE "queued"]
  /\ files = {}
  /\ unlinks = [r \in Reqs |-> 0]
  /\ calls = [r \in Reqs |-> 0]
  /\ conn = [r \in Reqs |-> "open"]
  /\ http = [r \in Reqs |-> NoResponse]
  /\ events = [r \in Reqs |-> <<>>]
  /\ loc = [r \in Reqs |-> NoLocals]

\* One client, any request.
Init ==
  /\ input \in {[r \in Reqs |-> IF r = 1 THEN i ELSE NoRequest] : i \in Inputs}
  /\ InitState

\* One client, any request, segments of few kinds.
InitFair ==
  /\ input \in {[r \in Reqs |-> IF r = 1 THEN i ELSE NoRequest] : i \in FairInputs}
  /\ InitState

\* One client, any request, segments of many texts.
InitText ==
  /\ input \in {[r \in Reqs |-> IF r = 1 THEN i ELSE NoRequest] : i \in TextInputs}
  /\ InitState

\* One client, any request, any Content-Type and audioUrl.
InitSuffix ==
  /\ input \in {[r \in Reqs |-> IF r = 1 THEN i ELSE NoRequest] : i \in SuffixInputs}
  /\ InitState

\* Every client sends a request.
InitServer ==
  /\ input \in [Reqs -> ServerInputs]
  /\ InitState

\* ------------------------------------------------------ pure functions
Whitespace == {" ", "\t", "\n"}

RECURSIVE LStrip(_)
LStrip(t) ==
  IF t # <<>> /\ Head(t) \in Whitespace THEN LStrip(Tail(t)) ELSE t

RECURSIVE RStrip(_)
RStrip(t) ==
  IF t # <<>> /\ t[Len(t)] \in Whitespace
  THEN RStrip(SubSeq(t, 1, Len(t) - 1))
  ELSE t

\* segment.text.strip()
Strip(t) == RStrip(LStrip(t))

\* " ".join(text_parts)
RECURSIVE Join(_)
Join(parts) ==
  IF parts = <<>> THEN <<>>
  ELSE IF Len(parts) = 1 THEN parts[1]
  ELSE parts[1] \o <<" ">> \o Join(Tail(parts))

\* needle in hay (substring), for sequences of characters.
Contains(needle, hay) ==
  \E i \in 1..(Len(hay) - Len(needle) + 1) :
    SubSeq(hay, i, i + Len(needle) - 1) = needle

\* s.endswith(tail)
EndsWith(s, tail) ==
  /\ Len(tail) <= Len(s)
  /\ SubSeq(s, Len(s) - Len(tail) + 1, Len(s)) = tail

\* As if the Content-Type were tried first and the audioUrl only when it is
\* not recognized.
Suffix_ContentTypeFirst(content_type, audio_url) ==
  IF Contains(<<"a", "u", "d", "i", "o", "/", "m", "p", "e", "g">>, content_type) THEN ".mp3"
  ELSE IF Contains(<<"a", "u", "d", "i", "o", "/", "w", "a", "v">>, content_type) THEN ".wav"
  ELSE IF Contains(<<"a", "u", "d", "i", "o", "/", "m", "p", "4">>, content_type) THEN ".m4a"
  ELSE IF EndsWith(audio_url, <<".", "m", "p", "3">>) THEN ".mp3"
  ELSE IF EndsWith(audio_url, <<".", "w", "a", "v">>) THEN ".wav"
  ELSE IF EndsWith(audio_url, <<".", "m", "4", "a">>) THEN ".m4a"
  ELSE ".mp3"

\* The suffix of the temp file: the if / elif chain on content_type and
\* audio_url.
Suffix(content_type, audio_url) ==
  IF Contains(<<"a", "u", "d", "i", "o", "/", "m", "p", "e", "g">>, content_type) \/ EndsWith(audio_url, <<".", "m", "p", "3">>)
  THEN ".mp3"
  ELSE IF Contains(<<"a", "u", "d", "i", "o", "/", "w", "a", "v">>, content_type) \/ EndsWith(audio_url, <<".", "w", "a", "v">>)
  THEN ".wav"
  ELSE IF Contains(<<"a", "u", "d", "i", "o", "/", "m", "p", "4">>, content_type) \/ EndsWith(audio_url, <<".", "m", "4", "a">>)
  THEN ".m4a"
  ELSE ".mp3"

Min(a, b) == IF a <= b THEN a ELSE b
Max(a, b) == IF a >= b THEN a ELSE b

\* min(100, max(0, (1 + segment.avg_logprob) * 100)), in 1/100 of a percent
\* for a log-probability in 1/10000.
SegmentConfidence(lp) == Min(10000, Max(0, 10000 + lp))

\* n / d rounded to the nearest integer, ties to the even one (Python's
\* round), for n >= 0 and d > 0.
RoundHalfEven(n, d) ==
  LET q == n \div d
      rem == n % d
  IN  IF 2 * rem < d THEN q
      ELSE IF 2 * rem > d THEN q + 1
      ELSE IF q % 2 = 0 THEN q ELSE q + 1

\* round(x, 1) of a value in 1/100 of a percent: the result in 1/10.
Round1(x) == RoundHalfEven(x, 10)

\* The threshold of a low-confidence segment, 70 percent, in 1/100.
LowConfidence == 7000

\* str(e) of what request.json or data.get raises for a body.
ParseError(b) ==
  CASE b = "unsupported_media" -> "415 Unsupported Media Type"
    [] b = "malformed_json" -> "400 Bad Request"
    [] b = "json_null" -> "'NoneType' object has no attribute 'get'"
    [] b = "json_array" -> "'list' object has no attribute 'get'"

ErrorResponse(status, text) == [status |-> status, body |-> [error |-> text]]

\* app.run(host, port, debug=False) gives no threaded argument: Flask's run
\* sets threaded to True by default, one thread per request.
Threaded == TRUE

\* Request r is being handled: accepted by a handler, its response (for a
\* stream, its generator) not finished.
Handling(r) == pc[r] \notin {"none", "queued", "done"}

\* ------------------------------------------- both handlers: the beginning
\* request.json or data.get('audioUrl') raises; the handler's outer
\* except answers 500 with the exception's text.
ParseFails(r) ==
  /\ pc[r] = "queued"
  /\ Threaded \/ \A q \in Reqs \ {r} : ~Handling(q)
  /\ input[r].body \in {"unsupported_media", "malformed_json", "json_null", "json_array"}
  /\ http' = [http EXCEPT ![r] = ErrorResponse(500, ParseError(input[r].body))]
  /\ pc' = [pc EXCEPT ![r] = "done"]
  /\ UNCHANGED <<input, files, unlinks, calls, conn, events, loc>>

\* if not audio_url: 400.
UrlMissing(r) ==
  /\ pc[r] = "queued"
  /\ Threaded \/ \A q \in Reqs \ {r} : ~Handling(q)
  /\ input[r].body \in {"no_key", "null_url", "empty_url"}
  /\ http' = [http EXCEPT ![r] = ErrorResponse(400, "audioUrl required")]
  /\ pc' = [pc EXCEPT ![r] = "done"]
  /\ UNCHANGED <<input, files, unlinks, calls, conn, events, loc>>

UrlPresent(r) ==
  /\ pc[r] = "queued"
  /\ Threaded \/ \A q \in Reqs \ {r} : ~Handling(q)
  /\ input[r].body = "url"
  /\ pc' = [pc EXCEPT ![r] = "fetch"]
  /\ UNCHANGED <<input, files, unlinks, calls, conn, http, events, loc>>

\* requests.get(..., stream=True, timeout=60) or raise_for_status raises a
\* RequestException: 400.
FetchFails(r) ==
  /\ pc[r] = "fetch"
  /\ input[r].fetch \in {"connect_fail", "timeout", "http_error"}
  /\ http' = [http EXCEPT ![r] =
                ErrorResponse(400, "Failed to download audio: " \o input[r].msg)]
  /\ pc' = [pc EXCEPT ![r] = "done"]
  /\ UNCHANGED <<input, files, unlinks, calls, conn, events, loc>>

\* The response headers arrived with a 2xx status; the body is not read yet.
\* The handler chooses the temp file's suffix from them and the audioUrl.
FetchOk(r) ==
  /\ pc[r] = "fetch"
  /\ input[r].fetch \in {"ok", "body_fail"}
  /\ loc' = [loc EXCEPT ![r].suffix =
                Some(Suffix(input[r].content_type, input[r].url))]
  /\ pc' = [pc EXCEPT ![r] = "save"]
  /\ UNCHANGED <<input, files, unlinks, calls, conn, http, events>>

\* with NamedTemporaryFile(delete=False): iter_content raises while the body
\* is copied.  The with block closes the file and keeps it; the exception
\* reaches the handler's outer except: 500.
SaveFails(r) ==
  /\ pc[r] = "save"
  /\ input[r].fetch = "body_fail"
  /\ files' = files \cup {r}
  /\ http' = [http EXCEPT ![r] = ErrorResponse(500, input[r].msg)]
  /\ pc' = [pc EXCEPT ![r] = "done"]
  /\ UNCHANGED <<input, unlinks, calls, conn, events, loc>>

\* The body is copied to the temp file.  /transcribe goes on to the provider;
\* /transcribe/stream builds generate() and returns the streaming Response,
\* whose generator has not run yet.
SaveOk(r) ==
  /\ pc[r] = "save"
  /\ input[r].fetch = "ok"
  /\ files' = files \cup {r}
  /\ IF input[r].endpoint = "transcribe"
     THEN /\ pc' = [pc EXCEPT ![r] = "call"]
          /\ http' = http
     ELSE /\ pc' = [pc EXCEPT ![r] = "gen_created"]
          /\ http' = [http EXCEPT ![r] = [status |-> 200, body |-> "text/event-stream"]]
  /\ UNCHANGED <<input, unlinks, calls, conn, events, loc>>

\* ------------------------------------------------------------ /transcribe
\* finally: try: os.unlink(tmp_path) except: pass
Unlink(r) ==
  /\ files' = files \ {r}
  /\ unlinks' = [unlinks EXCEPT ![r] = @ + 1]

\* The handler enters model.transcribe(tmp_path, **transcribe_params).
CallBegin(r) ==
  /\ pc[r] = "call"
  /\ calls' = [calls EXCEPT ![r] = @ + 1]
  /\ pc' = [pc EXCEPT ![r] = "transcribing"]
  /\ UNCHANGED <<input, files, unlinks, conn, http, events, loc>>

\* model.transcribe returns the segment generator and info.
CallReturn(r) ==
  /\ pc[r] = "transcribing"
  /\ input[r].fail # "call"
  /\ pc' = [pc EXCEPT ![r] = "loop"]
  /\ UNCHANGED <<input, files, unlinks, calls, conn, http, events, loc>>

\* As if the provider's exception reached the handler's outer except: the
\* bare text, without the "Transcription failed: " prefix.
TranscriptionFailed_Bare(r) ==
  /\ http' = [http EXCEPT ![r] = ErrorResponse(500, input[r].msg)]
  /\ pc' = [pc EXCEPT ![r] = "finally"]

\* except Exception as e: 500, "Transcription failed: ..."; then finally.
TranscriptionFailed(r) ==
  /\ http' = [http EXCEPT ![r] =
                ErrorResponse(500, "Transcription failed: " \o input[r].msg)]
  /\ pc' = [pc EXCEPT ![r] = "finally"]

\* model.transcribe raises.
CallRaise(r) ==
  /\ pc[r] = "transcribing"
  /\ input[r].fail = "call"
  /\ TranscriptionFailed(r)
  /\ UNCHANGED <<input, files, unlinks, calls, conn, events, loc>>

\* The entry of segments_data for a segment with confidence c (optional, in
\* 1/100): "confidence": round(c, 1) if c else None.
SegmentData(seg, c) ==
  [text |-> Strip(seg.text), start |-> seg.start, end |-> seg.end,
   confidence |-> IF Truthy(c) THEN Some(Round1(c[1])) ELSE None]

\* The entry of low_confidence_segments: "confidence": round(c, 1).
LowConfidenceEntry(seg, c) ==
  [text |-> Strip(seg.text), confidence |-> Some(Round1(c[1])),
   start |-> seg.start, end |-> seg.end]

\* As if a segment whose trimmed text is empty were left out of text_parts.
ShapeSegment_SkipsEmptyText(l, seg) ==
  LET has == seg.avg_logprob # None
      c == IF has THEN Some(SegmentConfidence(seg.avg_logprob[1])) ELSE None
  IN  [suffix |-> l.suffix,
       pos |-> l.pos + 1,
       text_parts |-> IF Strip(seg.text) = <<>> THEN l.text_parts
                      ELSE Append(l.text_parts, Strip(seg.text)),
       segments_data |-> Append(l.segments_data, SegmentData(seg, c)),
       total_confidence |-> IF has THEN l.total_confidence + c[1]
                            ELSE l.total_confidence,
       segment_count |-> IF has THEN l.segment_count + 1 ELSE l.segment_count,
       low_confidence_segments |->
         IF has /\ c[1] < LowConfidence
         THEN Append(l.low_confidence_segments, LowConfidenceEntry(seg, c))
         ELSE l.low_confidence_segments]

\* One pass of "for segment in segments" over segment seg, from locals l.
ShapeSegment(l, seg) ==
  LET has == seg.avg_logprob # None
      c == IF has THEN Some(SegmentConfidence(seg.avg_logprob[1])) ELSE None
  IN  [suffix |-> l.suffix,
       pos |-> l.pos + 1,
       text_parts |-> Append(l.text_parts, Strip(seg.text)),
       segments_data |-> Append(l.segments_data, SegmentData(seg, c)),
       total_confidence |-> IF has THEN l.total_confidence + c[1]
                            ELSE l.total_confidence,
       segment_count |-> IF has THEN l.segment_count + 1 ELSE l.segment_count,
       low_confidence_segments |->
         IF has /\ c[1] < LowConfidence
         THEN Append(l.low_confidence_segments, LowConfidenceEntry(seg, c))
         ELSE l.low_confidence_segments]

\* The provider yields the next segment and the loop body runs on it.
LoopSegment(r) ==
  /\ pc[r] = "loop"
  /\ loc[r].pos < Len(input[r].segs)
  /\ loc' = [loc EXCEPT ![r] = ShapeSegment(@, input[r].segs[@.pos + 1])]
  /\ UNCHANGED <<input, pc, files, unlinks, calls, conn, http, events>>

\* The provider raises instead of yielding the next segment.
LoopRaise(r) ==
  /\ pc[r] = "loop"
  /\ loc[r].pos = Len(input[r].segs)
  /\ input[r].fail = "iter"
  /\ TranscriptionFailed(r)
  /\ UNCHANGED <<input, files, unlinks, calls, conn, events, loc>>

\* response_data, from the locals after the loop.  avg_confidence is
\* total_confidence / segment_count, shown as round(avg, 1) if it is truthy.
ResponseData(l) ==
  [text |-> Join(l.text_parts),
   segments |-> l.segments_data,
   confidence |->
     IF l.segment_count > 0 /\ l.total_confidence # 0
     THEN Some(RoundHalfEven(l.total_confidence, 10 * l.segment_count))
     ELSE None,
   lowConfidenceSegments |-> l.low_confidence_segments,
   segmentCount |-> Len(l.segments_data)]

\* The provider's generator is exhausted: the handler builds the response.
Respond(r) ==
  /\ pc[r] = "loop"
  /\ loc[r].pos = Len(input[r].segs)
  /\ input[r].fail = "none"
  /\ http' = [http EXCEPT ![r] = [status |-> 200, body |-> ResponseData(loc[r])]]
  /\ pc' = [pc EXCEPT ![r] = "finally"]
  /\ UNCHANGED <<input, files, unlinks, calls, conn, events, loc>>

\* The finally clause of the provider's try; the handler returns.
Finally(r) ==
  /\ pc[r] = "finally"
  /\ Unlink(r)
  /\ pc' = [pc EXCEPT ![r] = "done"]
  /\ UNCHANGED <<input, calls, conn, http, events, loc>>

\* ----------------------------------------------------- /transcribe/stream
StartEvent == [type |-> "start"]
CompleteEvent == [type |-> "complete"]
ErrorEvent(m) == [type |-> "error", message |-> m]
SegmentEvent(seg) ==
  [type |-> "segment", text |-> Strip(seg.text),
   start |-> seg.start, end |-> seg.end]

Yield(r, ev) == events' = [events EXCEPT ![r] = Append(@, ev)]

\* The WSGI server pulls the first item: generate() starts and enters
\* model.transcribe.
GenBegin(r) ==
  /\ pc[r] = "gen_created"
  /\ calls' = [calls EXCEPT ![r] = @ + 1]
  /\ pc' = [pc EXCEPT ![r] = "gen_transcribing"]
  /\ UNCHANGED <<input, files, unlinks, conn, http, events, loc>>

\* model.transcribe returns; generate() yields the start event.
GenStart(r) ==
  /\ pc[r] = "gen_transcribing"
  /\ input[r].fail # "call"
  /\ Yield(r, StartEvent)
  /\ pc' = [pc EXCEPT ![r] = "yielded"]
  /\ UNCHANGED <<input, files, unlinks, calls, conn, http, loc>>

\* model.transcribe raises; except Exception yields the error event.
GenCallRaise(r) ==
  /\ pc[r] = "gen_transcribing"
  /\ input[r].fail = "call"
  /\ Yield(r, ErrorEvent(input[r].msg))
  /\ pc' = [pc EXCEPT ![r] = "yielded_error"]
  /\ UNCHANGED <<input, files, unlinks, calls, conn, http, loc>>

\* The server pulls again: the provider yields a segment, generate() yields
\* its event.
GenSegment(r) ==
  /\ pc[r] = "yielded"
  /\ loc[r].pos < Len(input[r].segs)
  /\ Yield(r, SegmentEvent(input[r].segs[loc[r].pos + 1]))
  /\ loc' = [loc EXCEPT ![r].pos = @ + 1]
  /\ UNCHANGED <<input, pc, files, unlinks, calls, conn, http>>

\* As if generate() had no except clause: the provider's exception ends the
\* stream without an error event.
GenIterRaise_NoErrorEvent(r) ==
  /\ pc[r] = "yielded"
  /\ loc[r].pos = Len(input[r].segs)
  /\ input[r].fail = "iter"
  /\ pc' = [pc EXCEPT ![r] = "yielded_error"]
  /\ UNCHANGED <<input, files, unlinks, calls, conn, http, events, loc>>

\* The server pulls again: the provider raises; the error event is yielded.
GenIterRaise(r) ==
  /\ pc[r] = "yielded"
  /\ loc[r].pos = Len(input[r].segs)
  /\ input[r].fail = "iter"
  /\ Yield(r, ErrorEvent(input[r].msg))
  /\ pc' = [pc EXCEPT ![r] = "yielded_error"]
  /\ UNCHANGED <<input, files, unlinks, calls, conn, http, loc>>

\* As if the temp file were unlinked after the loop, before the complete
\* event is yielded, and again in the finally clause.
GenComplete_UnlinksEarly(r) ==
  /\ pc[r] = "yielded"
  /\ loc[r].pos = Len(input[r].segs)
  /\ input[r].fail = "none"
  /\ Yield(r, CompleteEvent)
  /\ Unlink(r)
  /\ pc' = [pc EXCEPT ![r] = "yielded_complete"]
  /\ UNCHANGED <<input, calls, conn, http, loc>>

\* The server pulls again: the provider is exhausted; complete is yielded.
GenComplete(r) ==
  /\ pc[r] = "yielded"
  /\ loc[r].pos = Len(input[r].segs)
  /\ input[r].fail = "none"
  /\ Yield(r, CompleteEvent)
  /\ pc' = [pc EXCEPT ![r] = "yielded_complete"]
  /\ UNCHANGED <<input, files, unlinks, calls, conn, http, loc>>

\* The server pulls after the terminal event: generate() runs its finally
\* clause and ends.
GenFinish(r) ==
  /\ pc[r] \in {"yielded_complete", "yielded_error"}
  /\ Unlink(r)
  /\ pc' = [pc EXCEPT ![r] = "done"]
  /\ UNCHANGED <<input, calls, conn, http, events, loc>>

\* As if the unlink stood after the loop instead of in a finally clause: a
\* generator closed at a yield never reaches it.
GenClose_NoFinally(r) ==
  /\ pc[r] \in {"yielded", "yielded_complete", "yielded_error"}
  /\ conn[r] = "closed"
  /\ pc' = [pc EXCEPT ![r] = "done"]
  /\ UNCHANGED <<input, files, unlinks, calls, conn, http, events, loc>>

\* Writing an event to a closed connection fails and the server closes the
\* generator: GeneratorExit is raised at the yield where generate() waits,
\* except Exception does not catch it, the finally clause runs.
GenClose(r) ==
  /\ pc[r] \in {"yielded", "yielded_complete", "yielded_error"}
  /\ conn[r] = "closed"
  /\ Unlink(r)
  /\ pc' = [pc EXCEPT ![r] = "done"]
  /\ UNCHANGED <<input, calls, conn, http, events, loc>>

\* The client of a streaming request goes away.
Disconnect(r) ==
  /\ input[r].endpoint = "stream"
  /\ Handling(r)
  /\ conn[r] = "open"
  /\ conn' = [conn EXCEPT ![r] = "closed"]
  /\ UNCHANGED <<input, pc, files, unlinks, calls, http, events, loc>>

\* ------------------------------------------------------- specifications
\* What the server does for request r.
ServerStep(r) ==
  \/ ParseFails(r)
  \/ UrlMissing(r)
  \/ UrlPresent(r)
  \/ FetchFails(r)
  \/ FetchOk(r)
  \/ SaveFails(r)
  \/ SaveOk(r)
  \/ CallBegin(r)
  \/ CallReturn(r)
  \/ CallRaise(r)
  \/ LoopSegment(r)
  \/ LoopRaise(r)
  \/ Respond(r)
  \/ Finally(r)
  \/ GenBegin(r)
  \/ GenStart(r)
  \/ GenCallRaise(r)
  \/ GenSegment(r)
  \/ GenIterRaise(r)
  \/ GenComplete(r)
  \/ GenFinish(r)
  \/ GenClose(r)

Next == \E r \in Reqs : ServerStep(r) \/ Disconnect(r)

\* One request.
Spec == Init /\ [][Next]_vars

\* One request; the server's threads keep running.
SpecFair == InitFair /\ [][Next]_vars /\ \A r \in Reqs : WF_vars(ServerStep(r))

\* Several requests in flight.
SpecServer == InitServer /\ [][Next]_vars

\* One request, segments of many texts.
SpecText == InitText /\ [][Next]_vars

\* One request, any Content-Type and audioUrl.
SpecSuffix == InitSuffix /\ [][Next]_vars

\* ================================================================ claims
IsPrefix(s, t) == Len(s) <= Len(t) /\ s = SubSeq(t, 1, Len(s))

IsStream(r) == input[r].endpoint = "stream"
IsTranscribe(r) == input[r].endpoint = "transcribe"

\* The streaming Response was returned for r and its client read to the end.
Drained(r) ==
  IsStream(r) /\ pc[r] = "done" /\ http[r].status = 200 /\ conn[r] = "open"

\* The segment events of a provider run, one per segment, in its order.
SegmentEventsOf(i) ==
  [k \in 1..Len(i.segs) |->
     [type |-> "segment", text |-> Strip(i.segs[k].text),
      start |-> i.segs[k].start, end |-> i.segs[k].end]]

TerminalEventOf(i) ==
  IF i.fail = "none" THEN [type |-> "complete"]
  ELSE [type |-> "error", message |-> i.msg]

\* start, the segments, one terminal event.
FullStream(i) ==
  <<[type |-> "start"]>> \o SegmentEventsOf(i) \o <<TerminalEventOf(i)>>

\* The same, except that a raise inside model.transcribe leaves the error
\* event alone.
StreamOf(i) ==
  IF i.fail = "call" THEN <<[type |-> "error", message |-> i.msg]>>
  ELSE FullStream(i)

\* C1 as stated: a drained stream is one start event, the segment events of
\* the segments the provider yielded, in order, then one terminal event:
\* complete if the provider did not raise, error if it raised in the
\* transcribe call or while iterating.
C1_StartSegmentsTerminal ==
  \A r \in Reqs : Drained(r) => events[r] = FullStream(input[r])

\* C1 amended: when model.transcribe itself raises, the drained stream is the
\* error event alone, with no start event; otherwise it is one start event,
\* the segment events in provider order and one terminal event (complete
\* without a raise, error after a raise while iterating).  At every moment
\* the events yielded so far are a prefix of that sequence, so nothing follows
\* the terminal event and complete and error never both appear.
C1_StreamSequence ==
  \A r \in Reqs :
    /\ IsPrefix(events[r], StreamOf(input[r]))
    /\ Drained(r) => events[r] = StreamOf(input[r])

\* A drained stream of two segments that ended in an error event.
C1_Witness ==
  \E r \in Reqs :
    /\ Drained(r)
    /\ input[r].fail = "iter"
    /\ Len(input[r].segs) = 2
    /\ Len(events[r]) = 4
    /\ events[r][4].type = "error"

\* C2: once the /transcribe handler has returned, on whichever path, the
\* request's temp file does not exist.
C2_TempFileGone ==
  \A r \in Reqs : (IsTranscribe(r) /\ pc[r] = "done") => r \notin files

\* The generator of r exists (the streaming Response was returned) and has
\* not ended.
GenStates ==
  {"gen_created", "gen_transcribing", "yielded", "yielded_complete",
   "yielded_error"}

\* C3: for a streaming request whose Response was returned, os.unlink runs
\* exactly once, whether the stream ends in complete or in error; it runs in
\* the step that ends the generator, so no event is yielded in or after it,
\* and until then (while the provider may read it) the file exists.
C3_UnlinkOnceAtEnd ==
  [][\A r \in Reqs :
       IsStream(r) =>
         /\ unlinks'[r] <= 1
         /\ pc'[r] \in GenStates => (r \in files' /\ unlinks'[r] = 0)
         /\ (pc'[r] = "done" /\ http'[r].status = 200) =>
              (unlinks'[r] = 1 /\ r \notin files')
         /\ unlinks'[r] # unlinks[r] =>
              (pc[r] \in GenStates /\ pc'[r] = "done" /\ events'[r] = events[r])
         /\ pc[r] = "done" => events'[r] = events[r]]_vars

\* A stream that ended in complete after one segment, its file unlinked once.
C3_Witness ==
  \E r \in Reqs :
    /\ Drained(r)
    /\ Len(events[r]) = 3
    /\ events[r][3].type = "complete"
    /\ unlinks[r] = 1
    /\ r \notin files

\* C4: when the provider raises with message m, in model.transcribe or while
\* its segments are consumed, /transcribe answers 500 with the body
\* {"error": "Transcription failed: m"} and nothing else.
C4_TranscriptionFailed ==
  \A r \in Reqs :
    (IsTranscribe(r) /\ pc[r] = "done" /\ calls[r] > 0 /\ input[r].fail # "none")
      => http[r] = [status |-> 500,
                    body |-> [error |-> "Transcription failed: " \o input[r].msg]]

\* The provider raised after yielding a segment.
C4_Witness ==
  \E r \in Reqs :
    /\ IsTranscribe(r)
    /\ pc[r] = "done"
    /\ input[r].fail = "iter"
    /\ loc[r].pos = 1
    /\ http[r].status = 500

\* C5: when fetching the audio fails (connect, timeout, non-2xx status, or
\* the body transfer), the answer is 400 with an error text that holds the
\* failure's text, and the provider is not called.
C5_FetchFailure400 ==
  \A r \in Reqs :
    (pc[r] = "done" /\ input[r].body = "url" /\ input[r].fetch # "ok") =>
      /\ http[r].status = 400
      /\ http[r].body.error \in
           {input[r].msg, "Failed to download audio: " \o input[r].msg}
      /\ calls[r] = 0

\* C6: a request whose body supplies no audioUrl (key absent, null, empty, or
\* a body that is no JSON object) is answered 400 {"error": "audioUrl
\* required"}, with no temp file and no provider call.
C6_AudioUrlRequired ==
  \A r \in Reqs :
    (pc[r] = "done" /\ input[r].body # "url") =>
      /\ http[r] = [status |-> 400, body |-> [error |-> "audioUrl required"]]
      /\ r \notin files
      /\ unlinks[r] = 0
      /\ calls[r] = 0

\* C7: once the streaming Response of r was returned (its temp file is
\* written, its generator exists), a client that has gone away, at whatever
\* point, does not keep the temp file from being deleted.
C7_DisconnectStillDeletes ==
  \A r \in Reqs :
    (IsStream(r) /\ pc[r] \in GenStates /\ conn[r] = "closed")
      ~> (r \notin files /\ unlinks[r] = 1)

\* The client left before the first event was pulled; the generator was
\* closed at its start event, before either segment, and the file is gone.
C7_Witness ==
  \E r \in Reqs :
    /\ IsStream(r)
    /\ pc[r] = "done"
    /\ conn[r] = "closed"
    /\ Len(input[r].segs) = 2
    /\ events[r] = <<[type |-> "start"]>>
    /\ r \notin files
    /\ unlinks[r] = 1

\* Request r is executing model.transcribe or the loop that consumes its
\* segments.
InProvider(r) == pc[r] \in {"transcribing", "loop", "gen_transcribing"}

\* C8: at most one request is inside the provider at any time.
C8_OneInProvider == Cardinality({r \in Reqs : InProvider(r)}) <= 1

\* A segments entry whose shown confidence is below 70 (700 tenths).
ShownLow(sd) == sd.confidence # None /\ sd.confidence[1] < 700

\* C9: in a 200 response of /transcribe, lowConfidenceSegments is the
\* subsequence of segments whose shown confidence is below 70, in order and
\* with the same confidence.
C9_LowConfidenceSubsequence ==
  \A r \in Reqs :
    (IsTranscribe(r) /\ pc[r] = "done" /\ http[r].status = 200) =>
      http[r].body.lowConfidenceSegments = SelectSeq(http[r].body.segments, ShownLow)

\* C10: in a 200 response of /transcribe, every segment with an avg_logprob
\* has a numeric confidence between 0 and 100 that is
\* clamp(0, 100, (1 + avg_logprob) * 100) up to the rounding to one decimal.
C10_ConfidenceClamped ==
  \A r \in Reqs :
    (IsTranscribe(r) /\ pc[r] = "done" /\ http[r].status = 200) =>
      /\ Len(http[r].body.segments) = Len(input[r].segs)
      /\ \A k \in 1..Len(input[r].segs) :
           LET lp == input[r].segs[k].avg_logprob
               shown == http[r].body.segments[k].confidence
               exact == IF 10000 + lp[1] < 0 THEN 0
                        ELSE IF 10000 + lp[1] > 10000 THEN 10000
                        ELSE 10000 + lp[1]
           IN  lp # None =>
                 /\ shown # None
                 /\ 0 <= shown[1] /\ shown[1] <= 1000
                 /\ 10 * shown[1] - exact <= 5
                 /\ exact - 10 * shown[1] <= 5

\* The exact (unrounded) confidence, in 1/100, of a log-probability.
ExactConfidence(lp) ==
  IF 10000 + lp < 0 THEN 0 ELSE IF 10000 + lp > 10000 THEN 10000 ELSE 10000 + lp

\* The provider segments of a request that have a log-probability.
Scored(segs) == {k \in 1..Len(segs) : segs[k].avg_logprob # None}

\* The sum of the exact confidences of the segments numbered in K.
RECURSIVE ConfidenceSum(_, _)
ConfidenceSum(segs, K) ==
  IF K = {} THEN 0
  ELSE LET k == CHOOSE x \in K : TRUE
       IN  ExactConfidence(segs[k].avg_logprob[1]) + ConfidenceSum(segs, K \ {k})

\* C11: in a 200 response of /transcribe, the top-level confidence is the
\* mean of the confidences of the segments that have a log-probability,
\* rounded to one decimal, whenever there is such a segment, and null only
\* when there is none; a segment without a log-probability shows a null
\* confidence.
C11_MeanConfidence ==
  \A r \in Reqs :
    (IsTranscribe(r) /\ pc[r] = "done" /\ http[r].status = 200) =>
      LET segs == input[r].segs
          K == Scored(segs)
          n == Cardinality(K)
          total == ConfidenceSum(segs, K)
          shown == http[r].body.confidence
      IN  /\ K = {} <=> shown = None
          /\ K # {} =>
                /\ shown # None
                /\ (10 * n) * shown[1] - total <= 5 * n
                /\ total - (10 * n) * shown[1] <= 5 * n
          /\ \A k \in 1..Len(segs) :
                segs[k].avg_logprob = None =>
                  http[r].body.segments[k].confidence = None

\* The format a Content-Type names, by the table audio/mpeg -> .mp3,
\* audio/wav -> .wav, audio/mp4 -> .m4a; "none" when it is not recognized.
ContentTypeFormat(ct) ==
  CASE ct \in {CT_Mpeg, CT_MpegParam} -> ".mp3"
    [] ct = CT_Wav -> ".wav"
    [] ct = CT_Mp4 -> ".m4a"
    [] OTHER -> "none"

\* The format the audioUrl's ending names; "none" when it names none.
UrlFormat(u) ==
  CASE u = URL_Mp3 -> ".mp3"
    [] u = URL_Wav -> ".wav"
    [] u = URL_M4a -> ".m4a"
    [] OTHER -> "none"

\* Request r has chosen its temp file's suffix.
SuffixChosen(r) == loc[r].suffix # None

TrimOf(t) ==
  LET solid == {i \in 1..Len(t) : t[i] \notin {" ", "\t", "\n"}}
  IN  IF solid = {} THEN <<>>
      ELSE SubSeq(t, CHOOSE i \in solid : \A j \in solid : i <= j,
                     CHOOSE i \in solid : \A j \in solid : i >= j)

\* The texts of parts with one space between each two neighbours.
RECURSIVE SpaceJoined(_)
SpaceJoined(parts) ==
  IF Len(parts) = 0 THEN <<>>
  ELSE IF Len(parts) = 1 THEN parts[1]
  ELSE SpaceJoined(SubSeq(parts, 1, Len(parts) - 1)) \o <<" ">> \o parts[Len(parts)]

\* C13: in a 200 response of /transcribe, segments lists the provider's
\* segments in the provider's order, none dropped, duplicated or reordered,
\* each with its trimmed text, and text is those trimmed texts joined with
\* single spaces; with no segment, text is empty.
C13_TextIsJoinedSegments ==
  \A r \in Reqs :
    (IsTranscribe(r) /\ pc[r] = "done" /\ http[r].status = 200) =>
      LET segs == input[r].segs
          shown == http[r].body.segments
      IN  /\ Len(shown) = Len(segs)
          /\ \A k \in 1..Len(segs) :
                /\ shown[k].text = TrimOf(segs[k].text)
                /\ shown[k].start = segs[k].start
                /\ shown[k].end = segs[k].end
          /\ http[r].body.text = SpaceJoined([k \in 1..Len(segs) |-> shown[k].text])
          /\ Len(segs) = 0 => http[r].body.text = <<>>

\* A response for two segments, the first of white space only: text is the
\* empty text, a space, and the second one's trimmed text.
C13_Witness ==
  \E r \in Reqs :
    /\ IsTranscribe(r)
    /\ pc[r] = "done"
    /\ http[r].status = 200
    /\ Len(input[r].segs) = 2
    /\ input[r].segs[1].text = <<" ">>
    /\ input[r].segs[2].text = <<" ", "a">>
    /\ http[r].body.text = <<" ", "a">>

====
